---- MODULE Spec2Model ----
(***************************************************************************)
(* parquet-summarizer (src/src/main.rs): main, analyze_parquet,            *)
(* analyze_column, analyze_numerical_column, analyze_categorical_column    *)
(* and format_summary as a state machine over one run of the program.      *)
(*                                                                         *)
(* A column is its name, its declared type and its distinct values with    *)
(* their occurrence counts, listed in the order in which the engine's      *)
(* grouping yields them: groups[i] is the number of rows holding the i-th  *)
(* distinct value. The rows without a value form one group of their own,   *)
(* groups[null_group], for n_unique and value_counts alike (null_group is  *)
(* 0 when every row has a value); the statistics of a numerical column     *)
(* are taken over the other rows.                                          *)
(***************************************************************************)
EXTENDS Integers, Sequences, FiniteSets, TLC

VARIABLES pc, args, df, summaries, err, output, stdout, outfile

vars == <<pc, args, df, summaries, err, output, stdout, outfile>>

\* ---------------------------------------------------------------- bounds

\* Distinct values of a column of a one-column table.
MaxUnique == 13
\* Columns of a table.
MaxCols == 2
\* Rows of a table of several columns (all columns of a table are as long).
MaxTableRows == 1
\* Largest --categorical-threshold given on the command line.
MaxThreshold == 12

\* ------------------------------------------------------ program constants

\* std::cmp::min(10, unique_count): the number of entries of a top-n table.
DisplayCap == 10

\* ------------------------------------------------------------ data types

NumericalTypes ==
  {"UInt8", "UInt16", "UInt32", "UInt64", "Int8", "Int16", "Int32", "Int64",
   "Int128", "Float32", "Float64"}

CategoricalTypes == {"String", "Categorical", "Enum"}

\* Types of the fallback arm (every type that is neither numerical nor
\* categorical, a Date for one) on which n_unique is not supported.
OtherUncountableTypes == {"List"}

Min(a, b) == IF a <= b THEN a ELSE b

Ok(v) == [ok |-> TRUE, val |-> v]

Err(e) == [ok |-> FALSE, err |-> e]

RECURSIVE SumSeq(_)
SumSeq(s) == IF s = <<>> THEN 0 ELSE Head(s) + SumSeq(Tail(s))

\* df.height(): every row belongs to exactly one of the groups.
Height(column) == SumSeq(column.groups)

\* The number of rows that hold a value (that are not null).
Valid(column) ==
  Height(column) -
    (IF column.null_group = 0 THEN 0 ELSE column.groups[column.null_group])

\* ------------------------------------------------------ engine primitives

\* Series::n_unique: the number of distinct values, a null among them; a
\* list of values that are no numbers is a type the engine does not count.
n_unique(column) ==
  IF column.dtype \in OtherUncountableTypes
  THEN Err(<<"invalid operation: n_unique operation not supported for dtype ",
             column.dtype>>)
  ELSE Ok(Len(column.groups))

\* The AnyValue the id-th group of a column is read as: AnyValue::Null for the
\* rows without a value, else by the type of the column AnyValue::String,
\* AnyValue::Categorical, AnyValue::Enum, AnyValue::Date, ...
AnyValueOf(column, id) ==
  [av |-> IF id = column.null_group THEN "Null" ELSE column.dtype, id |-> id]

\* Series::quantile_reduce(quantile, QuantileMethod::Nearest), the quantile in
\* hundredths: refused outside of 0..1, and null for a column without values.
quantile_reduce(column, hundredths) ==
  IF hundredths \notin 0..100
  THEN Err(<<"quantile should be between 0.0 and 1.0">>)
  ELSE Ok(IF Valid(column) > 0 THEN "Some" ELSE "None")

\* Insert row r into the rows s, sorted by count descending, before its equals
\* (r precedes the rows of s in the unsorted frame: the sort is stable).
RECURSIVE InsertDesc(_, _)
InsertDesc(r, s) ==
  IF s = <<>> THEN <<r>>
  ELSE IF Head(s).count.v > r.count.v
       THEN <<Head(s)>> \o InsertDesc(r, Tail(s))
       ELSE <<r>> \o s

RECURSIVE SortDesc(_)
SortDesc(s) ==
  IF s = <<>> THEN <<>>
  ELSE InsertDesc(Head(s), SortDesc(Tail(s)))

\* Series::value_counts(sort, parallel, name, normalize): one row per distinct
\* value, in the order of the grouping unless sort asks for descending counts;
\* the counts are UInt32 unless normalize turns them into fractions; a column
\* that already bears the name asked for the counts is refused.
value_counts(column, sort, parallel, name, normalize) ==
  IF column.name = name
  THEN Err(<<"duplicate: using value_counts on a column/series named ", name>>)
  ELSE LET rows == [i \in 1..Len(column.groups) |->
                      [value |-> AnyValueOf(column, i),
                       count |-> IF normalize
                                 THEN [av |-> "Float64", v |-> column.groups[i]]
                                 ELSE [av |-> "UInt32", v |-> column.groups[i]]]]
       IN Ok([names |-> <<column.name, name>>,
              rows |-> IF sort THEN SortDesc(rows) ELSE rows])

\* DataFrame::column on the frame value_counts returns.
CountsColumn(counts_df, name) ==
  IF \E i \in 1..Len(counts_df.names) : counts_df.names[i] = name
  THEN Ok(name)
  ELSE Err(<<"not found: ", name>>)

\* -------------------------------------------------------- column analysis

Numerical(mean, std_dev, q25, q75, iqr) ==
  [kind |-> "Numerical", mean |-> mean, std_dev |-> std_dev,
   q25 |-> q25, q75 |-> q75, iqr |-> iqr]

Categorical(frequency_table, total_unique, showing_top_n) ==
  [kind |-> "Categorical", frequency_table |-> frequency_table,
   total_unique |-> total_unique, showing_top_n |-> showing_top_n]

\* analyze_numerical_column: each statistic is present or absent. The engine
\* yields no mean of a column without values and no sample standard deviation
\* of fewer than two values; a quantile the engine refuses (.ok()) or leaves
\* null (extract) is absent.
analyze_numerical_column(column) ==
  LET mean == IF Valid(column) > 0 THEN "Some" ELSE "None"
      std_dev == IF Valid(column) > 1 THEN "Some" ELSE "None"
      quantile25 == quantile_reduce(column, 25)
      quantile75 == quantile_reduce(column, 75)
      q25 == IF quantile25.ok THEN quantile25.val ELSE "None"
      q75 == IF quantile75.ok THEN quantile75.val ELSE "None"
      iqr == IF q25 = "Some" /\ q75 = "Some" THEN "Some" ELSE "None"
  IN Ok(Numerical(mean, std_dev, q25, q75, iqr))

\* The match on the AnyValue of a value cell (value_str).
ValueStr(value) ==
  CASE value.av = "String" -> [via |-> "to_string", id |-> value.id]
    [] value.av = "Categorical" -> [via |-> "rev_map", id |-> value.id]
    [] OTHER -> [via |-> "Display", id |-> value.id]

\* The loop over the first rows of the value counts: a row whose count is no
\* AnyValue::UInt32 pushes nothing.
RECURSIVE FrequencyTable(_, _)
FrequencyTable(rows, n) ==
  IF n = 0 THEN <<>>
  ELSE LET row == rows[n]
       IN FrequencyTable(rows, n - 1) \o
            (IF row.count.av = "UInt32"
             THEN <<[value |-> ValueStr(row.value), count |-> row.count.v]>>
             ELSE <<>>)

\* A variant of showing_top_n that takes the threshold itself for too many.
showing_top_n_from_threshold(unique_count, categorical_threshold) ==
  unique_count >= categorical_threshold

\* let showing_top_n = unique_count > categorical_threshold
showing_top_n(unique_count, categorical_threshold) ==
  unique_count > categorical_threshold

\* A variant of limit without the cap of a top-n table.
limit_uncapped(showing, unique_count) == unique_count

\* let limit = if showing_top_n { min(10, unique_count) } else { unique_count }
limit(showing, unique_count) ==
  IF showing THEN Min(DisplayCap, unique_count) ELSE unique_count

\* A variant of fallback that hands the engine's error on.
fallback_propagates(unique_count, cause) ==
  Err(<<"Failed to count values: ">> \o cause)

\* The Err(_) arm of the match on the value counts: the unique count alone.
fallback(unique_count, cause) == Ok(Categorical(<<>>, unique_count, FALSE))

analyze_categorical_column(column, categorical_threshold) ==
  LET unique == n_unique(column)
  IN IF ~unique.ok
     THEN Err(<<"Failed to count unique values: ">> \o unique.err)
     ELSE
       LET unique_count == unique.val
           value_counts_result == value_counts(column, FALSE, TRUE, "count", FALSE)
       IN IF value_counts_result.ok
          THEN
            LET counts_df == value_counts_result.val
                showing == showing_top_n(unique_count, categorical_threshold)
                values_column == CountsColumn(counts_df, column.name)
                counts_column == CountsColumn(counts_df, "count")
            IN IF ~values_column.ok
               THEN Err(<<"Failed to get values column: ">> \o values_column.err)
               ELSE IF ~counts_column.ok
               THEN Err(<<"Failed to get counts column: ">> \o counts_column.err)
               ELSE Ok(Categorical(
                         FrequencyTable(counts_df.rows,
                                        Min(limit(showing, unique_count),
                                            Len(counts_df.rows))),
                         unique_count, showing))
          ELSE fallback(unique_count, value_counts_result.err)

\* A variant of within_threshold that excludes the threshold itself.
within_threshold_strict(unique_count, categorical_threshold) ==
  unique_count < categorical_threshold

\* if unique_count <= categorical_threshold, in the arm of the other types
within_threshold(unique_count, categorical_threshold) ==
  unique_count <= categorical_threshold

\* A variant of other_column in which a failed count of the unique values
\* leaves the column with an empty summary instead of ending the run.
other_column_lenient(column, categorical_threshold) ==
  LET unique == n_unique(column)
  IN IF ~unique.ok
     THEN Ok(Categorical(<<>>, 0, FALSE))
     ELSE IF within_threshold(unique.val, categorical_threshold)
     THEN analyze_categorical_column(column, categorical_threshold)
     ELSE Ok(Categorical(<<>>, unique.val, FALSE))

\* The arm of the other types of analyze_column: the unique values are
\* counted, and the error of a failed count is returned by the ? operator.
other_column(column, categorical_threshold) ==
  LET unique == n_unique(column)
  IN IF ~unique.ok
     THEN Err(<<"Failed to count unique values: ">> \o unique.err)
     ELSE IF within_threshold(unique.val, categorical_threshold)
     THEN analyze_categorical_column(column, categorical_threshold)
     ELSE Ok(Categorical(<<>>, unique.val, FALSE))

analyze_column(column, categorical_threshold) ==
  IF column.dtype \in NumericalTypes
  THEN analyze_numerical_column(column)
  ELSE IF column.dtype \in CategoricalTypes
  THEN analyze_categorical_column(column, categorical_threshold)
  ELSE other_column(column, categorical_threshold)

\* ------------------------------------------------------------- the report

RECURSIVE Gcd(_, _)
Gcd(a, b) == IF b = 0 THEN a ELSE Gcd(b, a % b)

RECURSIVE Pow2(_)
Pow2(n) == IF n = 0 THEN 1 ELSE 2 * Pow2(n - 1)

\* a * 2^k modulo m.
RECURSIVE ModPow2(_, _, _)
ModPow2(a, k, m) == IF k = 0 THEN a % m ELSE (2 * ModPow2(a, k - 1, m)) % m

\* The least j with a * 2^j >= b: a/b lies in [2^-j, 2^(1-j)).
RECURSIVE Binade(_, _)
Binade(a, b) == IF a >= b THEN 0 ELSE 1 + Binade(2 * a, b)

\* The sign of (a/b as f64) * 100.0 minus the exact 100a/b, for a < b in
\* lowest terms whose 100a/b lies midway between two tenths (b is then 16,
\* 80, 400 or 2000). The quotient is a/b rounded to 53 bits, M * 2^-k with
\* M = (a * 2^k + rho) / b; the product 100 * M is rounded to 53 bits in
\* turn, which moves it by delta; both roundings are to nearest, ties to even.
ProductError(a, b) ==
  LET j == Binade(a, b)
      k == 52 + j
      r0 == ModPow2(a, k, b)
      rho == IF 2 * r0 < b THEN 0 - r0 ELSE b - r0
      m_low == ((ModPow2(a, k, 256 * b) + rho) % (256 * b)) \div b
      s == IF 100 * a * Pow2(j) < 128 * b
              \/ (100 * a * Pow2(j) = 128 * b /\ rho < 0)
           THEN 6 ELSE 7
      p_low == (100 * m_low) % 256
      low == p_low % Pow2(s)
      half == Pow2(s - 1)
      delta == IF low < half THEN 0 - low
               ELSE IF low > half THEN Pow2(s) - low
               ELSE IF p_low % Pow2(s + 1) >= Pow2(s) THEN half ELSE 0 - half
      v == b * delta + 100 * rho
  IN IF v > 0 THEN 1 ELSE IF v < 0 THEN 0 - 1 ELSE 0

\* (count as f64 / total as f64) * 100.0 as {:.1} prints it, in tenths of a
\* percent: the tenth nearest to the f64, the even one of two equally near.
\* Away from the midpoints the f64 rounds as the exact quotient does; at a
\* midpoint the error of the two f64 operations decides.
PercentTenths(count, total) ==
  LET g == Gcd(count, total)
      a == count \div g
      b == total \div g
      q == (1000 * a) \div b
      r == (1000 * a) % b
  IN IF 2 * r < b THEN q
     ELSE IF 2 * r > b THEN q + 1
     ELSE LET e == ProductError(a, b)
          IN IF e > 0 \/ (e = 0 /\ q % 2 = 1) THEN q + 1 ELSE q

\* The lines format_summary pushes for one ColumnStats.
StatsLines(stats) ==
  IF stats.kind = "Numerical"
  THEN <<[line |-> "Numerical Statistics:"],
         [line |-> "Mean", shown |-> IF stats.mean = "Some" THEN "value" ELSE "N/A"],
         [line |-> "Std Dev",
          shown |-> IF stats.std_dev = "Some" THEN "value" ELSE "N/A"]>>
       \o (IF stats.q25 = "Some" /\ stats.q75 = "Some" /\ stats.iqr = "Some"
           THEN <<[line |-> "Q1 (25%)", shown |-> "value"],
                  [line |-> "Q3 (75%)", shown |-> "value"],
                  [line |-> "IQR", shown |-> "value"]>>
           ELSE <<[line |-> "Quartiles", shown |-> "N/A"]>>)
  ELSE IF stats.frequency_table = <<>>
  THEN <<[line |-> "unique values (too many to display)",
          total_unique |-> stats.total_unique]>>
  ELSE <<[line |-> IF stats.showing_top_n
                   THEN "total unique values (showing top 10):"
                   ELSE "unique values:",
          total_unique |-> stats.total_unique]>>
       \o [i \in 1..Len(stats.frequency_table) |->
             [line |-> "entry",
              value |-> stats.frequency_table[i].value,
              count |-> stats.frequency_table[i].count,
              percentage |->
                PercentTenths(stats.frequency_table[i].count,
                              SumSeq([j \in 1..Len(stats.frequency_table) |->
                                        stats.frequency_table[j].count]))]]

\* format_summary: the heading, one numbered block per summary, the closing line.
format_summary(summ) ==
  [heading |-> "Column Analysis",
   blocks |-> [i \in 1..Len(summ) |->
                 [number |-> i, name |-> summ[i].name,
                  data_type |-> summ[i].data_type,
                  lines |-> StatsLines(summ[i].summary)]],
   closing |-> "Analysis complete!"]

\* ------------------------------------------------------------- the inputs

\* The distinct values of a column, by their number and the spread of the rows
\* over them: one row each, or one row more on the first or on the last.
GroupsOf(n, shape) ==
  [i \in 1..n |-> IF (shape = "head" /\ i = 1) \/ (shape = "tail" /\ i = n)
                  THEN 2 ELSE 1]

GroupShapes ==
  {<<>>} \cup {GroupsOf(n, shape) : n \in 1..MaxUnique,
                                    shape \in {"flat", "head", "tail"}}

DTypes == {"Int64", "String", "Categorical", "Enum", "Date", "List"}

\* A table has no two columns of one name: the i-th is named c<i> or count.
ColumnNames(k) ==
  {names \in [1..k -> {"count"} \cup {"c" \o ToString(i) : i \in 1..k}] :
     /\ \A i \in 1..k : names[i] \in {"count", "c" \o ToString(i)}
     /\ \A i, j \in 1..k : names[i] = names[j] => i = j}

\* The h rows of a column of a table of k columns: the groups, and which of
\* them is the group of the rows without a value: none, or, in a table of one
\* column, the one the grouping yields last.
RowsOf(k, h) ==
  UNION {{[groups |-> g, null_group |-> n] :
            n \in IF k = 1 THEN {0, Len(g)} ELSE {0}} :
           g \in {x \in GroupShapes : SumSeq(x) = h}}

\* The tables of k columns and h rows.
TablesOf(k, h) ==
  {[i \in 1..k |-> [name |-> names[i], dtype |-> dtypes[i],
                    groups |-> rows[i].groups,
                    null_group |-> rows[i].null_group]] :
     names \in ColumnNames(k),
     dtypes \in [1..k -> DTypes],
     rows \in [1..k -> RowsOf(k, h)]}

Tables ==
  UNION {TablesOf(k, h) : k \in 0..MaxCols, h \in 0..MaxTableRows}
  \cup UNION {TablesOf(1, h) : h \in 0..(MaxUnique + 1)}

\* ------------------------------------------------------- the state machine

None == <<>>

Some(x) == <<x>>

\* A variant of get_column_names that yields the names last column first.
get_column_names_reversed(frame) ==
  [i \in 1..Len(frame) |-> frame[Len(frame) + 1 - i].name]

\* DataFrame::get_column_names: the names in the order of the columns.
get_column_names(frame) == [i \in 1..Len(frame) |-> frame[i].name]

\* DataFrame::column
column(frame, name) ==
  IF \E i \in 1..Len(frame) : frame[i].name = name
  THEN Ok(frame[CHOOSE i \in 1..Len(frame) : frame[i].name = name])
  ELSE Err(<<"not found: ", name>>)

Init ==
  /\ pc = "main"
  /\ args \in [input_exists : BOOLEAN,
               output : {"stdout", "file"},
               categorical_threshold : 0..MaxThreshold]
  /\ df = None
  /\ summaries = <<>>
  /\ err = None
  /\ output = None
  /\ stdout = <<>>
  /\ outfile = None

\* main, up to the call of analyze_parquet.
Main ==
  /\ pc = "main"
  /\ IF ~args.input_exists
     THEN /\ pc' = "failed"
          /\ err' = <<"Input file does not exist">>
     ELSE /\ pc' = "scan"
          /\ err' = err
  /\ UNCHANGED <<args, df, summaries, output, stdout, outfile>>

\* What a println!/print! that fails leaves behind: the text cut off
\* somewhere, and the process panicking.
CutOff(text) == [text |-> "cut off", of |-> text]

\* analyze_parquet, up to the loop: scan, collect, the shape lines.
ScanParquet ==
  /\ pc = "scan"
  /\ \/ /\ \E msg \in {"Failed to scan parquet file", "Failed to load parquet data"} :
             err' = <<msg>>
        /\ pc' = "failed"
        /\ UNCHANGED <<df, stdout>>
     \/ /\ \E table \in Tables :
             /\ df' = Some(table)
             /\ \/ /\ stdout' = Append(stdout,
                       [text |-> "Parquet File Analysis",
                        rows |-> IF table = <<>> THEN 0 ELSE Height(table[1]),
                        columns |-> Len(table)])
                   /\ pc' = "columns"
                \/ /\ stdout' = Append(stdout, CutOff("Parquet File Analysis"))
                   /\ pc' = "panicked"
        /\ err' = err
  /\ UNCHANGED <<args, summaries, output, outfile>>

\* One turn of the loop of analyze_parquet.
AnalyzeNextColumn ==
  /\ pc = "columns"
  /\ Len(summaries) < Len(df[1])
  /\ LET column_name == get_column_names(df[1])[Len(summaries) + 1]
         found == column(df[1], column_name)
     IN IF ~found.ok
        THEN /\ err' = <<"Failed to get column ", column_name>> \o found.err
             /\ pc' = "failed"
             /\ summaries' = summaries
        ELSE LET series == found.val
                 summary == analyze_column(series, args.categorical_threshold)
             IN IF ~summary.ok
                THEN /\ err' = summary.err
                     /\ pc' = "failed"
                     /\ summaries' = summaries
                ELSE /\ summaries' = Append(summaries,
                          [name |-> column_name,
                           data_type |-> series.dtype,
                           summary |-> summary.val])
                     /\ pc' = pc
                     /\ err' = err
  /\ UNCHANGED <<args, df, output, stdout, outfile>>

\* The loop is over: analyze_parquet returns the summaries and main formats them.
FormatSummary ==
  /\ pc = "columns"
  /\ Len(summaries) = Len(df[1])
  /\ output' = Some(format_summary(summaries))
  /\ pc' = "write"
  /\ UNCHANGED <<args, df, summaries, err, stdout, outfile>>

\* The output file as this run leaves it: created (or truncated) by
\* File::create, then holding what write_all got written of the text.
Written(how, text) == [written |-> how, text |-> text]

\* main, no output path given: print!("{output_text}").
PrintReport ==
  /\ pc = "write"
  /\ args.output = "stdout"
  /\ \/ /\ stdout' = Append(stdout, [text |-> "report", report |-> output[1]])
        /\ pc' = "done"
     \/ /\ stdout' = Append(stdout, CutOff("report"))
        /\ pc' = "panicked"
  /\ UNCHANGED <<args, df, summaries, err, output, outfile>>

\* main, an output path given: File::create.
CreateOutputFile ==
  /\ pc = "write"
  /\ args.output = "file"
  /\ \/ /\ outfile' = Some(Written("nothing", output[1]))
        /\ pc' = "write_all"
        /\ err' = err
     \/ /\ err' = <<"Failed to create output file">>
        /\ pc' = "failed"
        /\ outfile' = outfile
  /\ UNCHANGED <<args, df, summaries, output, stdout>>

\* file.write_all(output_text.as_bytes()): all of the text, or an error with
\* nothing or a part of it in the file.
WriteOutputFile ==
  /\ pc = "write_all"
  /\ \/ /\ outfile' = Some(Written("all", output[1]))
        /\ pc' = "written"
        /\ err' = err
     \/ /\ \E how \in {"nothing", "part"} :
             outfile' = Some(Written(how, output[1]))
        /\ err' = <<"Failed to write to output file">>
        /\ pc' = "failed"
  /\ UNCHANGED <<args, df, summaries, output, stdout>>

\* println!("Summary written to: {}", ...) and Ok(()).
PrintWritten ==
  /\ pc = "written"
  /\ \/ /\ stdout' = Append(stdout, [text |-> "Summary written to"])
        /\ pc' = "done"
     \/ /\ stdout' = Append(stdout, CutOff("Summary written to"))
        /\ pc' = "panicked"
  /\ UNCHANGED <<args, df, summaries, err, output, outfile>>

Next ==
  \/ Main
  \/ ScanParquet
  \/ AnalyzeNextColumn
  \/ FormatSummary
  \/ PrintReport
  \/ CreateOutputFile
  \/ WriteOutputFile
  \/ PrintWritten

Spec == Init /\ [][Next]_vars

\* ------------------------------------------------------------- properties

Threshold == args.categorical_threshold

\* The i-th column of the loaded table and what the run has recorded for it.
Col(i) == df[1][i]

Stats(i) == summaries[i].summary

Summarised == 1..Len(summaries)

CategoricalSummaries == {i \in Summarised : Stats(i).kind = "Categorical"}

UniqueCount(i) == n_unique(Col(i)).val

BreakdownOk(i) == value_counts(Col(i), FALSE, TRUE, "count", FALSE).ok

\* analyze_parquet has returned Ok(summaries): main has formatted them.
AnalysisSucceeded == output # None

\* The run ended because a count of unique values failed.
ProbeFailed ==
  pc = "failed" /\ err # None /\ err[1] = "Failed to count unique values: "

\* The run ended because a column was not found.
LookupFailed == pc = "failed" /\ err # None /\ err[1] = "Failed to get column "

ReportEmitted ==
  \/ output # None
  \/ outfile # None
  \/ \E k \in 1..Len(stdout) :
       \/ stdout[k].text = "report"
       \/ (stdout[k].text = "cut off" /\ stdout[k].of = "report")

\* The entry lines of the i-th block of the report.
EntryLines(i) ==
  {k \in 1..Len(output[1].blocks[i].lines) :
     output[1].blocks[i].lines[k].line = "entry"}

\* C1: when analyze_parquet succeeds there is exactly one summary per column
\* of the table, and the i-th summary carries the name of the i-th column.
C1_OneSummaryPerColumnInOrder ==
  AnalysisSucceeded =>
    /\ Len(summaries) = Len(df[1])
    /\ \A i \in 1..Len(df[1]) : summaries[i].name = Col(i).name

C1_Witness ==
  /\ pc = "done"
  /\ Len(df[1]) >= 2
  /\ Len(summaries) = Len(df[1])

\* C2 as stated: for every summarised column of a string, categorical or enum
\* type, the table has unique_count entries and the flag is off when
\* unique_count <= threshold, and the table has min(10, unique_count) entries
\* and the flag is on when unique_count > threshold.
C2_AsStated ==
  \A i \in Summarised :
    Col(i).dtype \in CategoricalTypes =>
      IF UniqueCount(i) <= Threshold
      THEN /\ Len(Stats(i).frequency_table) = UniqueCount(i)
           /\ ~Stats(i).showing_top_n
      ELSE /\ Len(Stats(i).frequency_table) = Min(DisplayCap, UniqueCount(i))
           /\ Stats(i).showing_top_n

\* C2 amended: the same, for the columns whose value counts the engine
\* delivers (a column named like the count column has none).
C2_WhenBreakdownSucceeds ==
  \A i \in Summarised :
    (Col(i).dtype \in CategoricalTypes /\ BreakdownOk(i)) =>
      IF UniqueCount(i) <= Threshold
      THEN /\ Len(Stats(i).frequency_table) = UniqueCount(i)
           /\ ~Stats(i).showing_top_n
      ELSE /\ Len(Stats(i).frequency_table) = Min(DisplayCap, UniqueCount(i))
           /\ Stats(i).showing_top_n

C2_Witness ==
  /\ \E i \in Summarised :
       /\ Col(i).dtype \in CategoricalTypes
       /\ BreakdownOk(i)
       /\ UniqueCount(i) > Threshold
       /\ UniqueCount(i) > DisplayCap
       /\ Len(Stats(i).frequency_table) = DisplayCap
       /\ Stats(i).showing_top_n

\* C3 as stated: a frequency table never has more than min(total_unique, 10)
\* entries.
C3_AsStated ==
  \A i \in CategoricalSummaries :
    Len(Stats(i).frequency_table) <= Min(Stats(i).total_unique, DisplayCap)

\* C3 amended: a frequency table never has more than total_unique entries, and
\* never more than 10 when total_unique exceeds the threshold.
C3_CappedAboveThreshold ==
  \A i \in CategoricalSummaries :
    /\ Len(Stats(i).frequency_table) <= Stats(i).total_unique
    /\ Stats(i).total_unique > Threshold =>
         Len(Stats(i).frequency_table) <= DisplayCap

C3_Witness ==
  \E i \in CategoricalSummaries :
    /\ Threshold > DisplayCap
    /\ Stats(i).total_unique > Threshold
    /\ Len(Stats(i).frequency_table) = DisplayCap

\* C4: in every categorical result showing_top_n is on exactly when the
\* frequency table has fewer entries than total_unique.
C4_FlagIffTruncated ==
  \A i \in CategoricalSummaries :
    Stats(i).showing_top_n <=>
      Len(Stats(i).frequency_table) < Stats(i).total_unique

\* C5: the entries of every frequency table are in descending order of count.
C5_DescendingCounts ==
  \A i \in CategoricalSummaries :
    \A j \in 1..(Len(Stats(i).frequency_table) - 1) :
      Stats(i).frequency_table[j].count >= Stats(i).frequency_table[j + 1].count

\* C6: a table with a column whose unique values cannot be counted, where the
\* code counts them, never gets a report: the loop does not pass that column,
\* and the run ends there as failed (or before the loop, when printing the
\* shape lines panics), with nothing formatted, nothing written and nothing
\* printed but the shape lines.
C6_ProbeFailureAborts ==
  /\ (ProbeFailed \/ LookupFailed) =>
       /\ ~ReportEmitted
       /\ Len(summaries) < Len(df[1])
  /\ df # None =>
       \A i \in 1..Len(df[1]) :
         (Col(i).dtype \notin NumericalTypes /\ ~n_unique(Col(i)).ok) =>
           /\ Len(summaries) < i
           /\ ~ReportEmitted
           /\ pc \in {"columns", "failed", "panicked"}
           /\ (pc = "failed" => ProbeFailed)

C6_Witness ==
  /\ ProbeFailed
  /\ Len(summaries) >= 1
  /\ ~ReportEmitted

\* C7: the error of a failed count of unique values names the column that
\* failed and carries the cause the engine gave.
C7_ErrorNamesColumnAndCause ==
  ProbeFailed =>
    LET offending == Col(Len(summaries) + 1)
        cause == n_unique(offending).err
    IN /\ \E k \in 1..Len(err) : err[k] = offending.name
       /\ \A c \in 1..Len(cause) : \E k \in 1..Len(err) : err[k] = cause[c]

\* C8: a column whose unique values are counted and whose value counts fail
\* is summarised all the same, by an empty frequency table, the unique count
\* and the flag off; the run does not end on it.
C8_BreakdownFailureDegrades ==
  df # None =>
    \A i \in 1..Len(df[1]) :
      ( /\ Col(i).dtype \notin NumericalTypes
        /\ n_unique(Col(i)).ok
        /\ (Col(i).dtype \in CategoricalTypes \/ UniqueCount(i) <= Threshold)
        /\ ~BreakdownOk(i) ) =>
          /\ i \in Summarised =>
               Stats(i) = Categorical(<<>>, UniqueCount(i), FALSE)
          /\ ~(pc = "failed" /\ Len(summaries) = i - 1)

C8_Witness ==
  /\ pc = "done"
  /\ \E i \in Summarised :
       /\ Col(i).dtype \in CategoricalTypes
       /\ ~BreakdownOk(i)
       /\ UniqueCount(i) > Threshold
       /\ Stats(i) = Categorical(<<>>, UniqueCount(i), FALSE)

\* C9: a column of another type with more unique values than the threshold
\* gets the unique count alone, flag off, printed as too many to display; with
\* at most threshold unique values it gets what the categorical path gives,
\* the complete frequency table when the value counts are delivered.
C9_OtherTypesByThreshold ==
  \A i \in Summarised :
    Col(i).dtype \notin (NumericalTypes \cup CategoricalTypes) =>
      IF UniqueCount(i) > Threshold
      THEN /\ Stats(i) = Categorical(<<>>, UniqueCount(i), FALSE)
           /\ AnalysisSucceeded =>
                /\ Len(output[1].blocks[i].lines) = 1
                /\ output[1].blocks[i].lines[1] =
                     [line |-> "unique values (too many to display)",
                      total_unique |-> UniqueCount(i)]
      ELSE /\ Stats(i).kind = "Categorical"
           /\ Stats(i).total_unique = UniqueCount(i)
           /\ ~Stats(i).showing_top_n
           /\ Len(Stats(i).frequency_table) =
                (IF BreakdownOk(i) THEN UniqueCount(i) ELSE 0)

C9_Witness ==
  /\ AnalysisSucceeded
  /\ \E i \in Summarised :
       /\ Col(i).dtype \notin (NumericalTypes \cup CategoricalTypes)
       /\ UniqueCount(i) > Threshold
       /\ Threshold >= DisplayCap
       /\ Stats(i) = Categorical(<<>>, UniqueCount(i), FALSE)

\* C10: under every heading "total unique values (showing top 10)" of the
\* report exactly 10 entries are listed.
C10_TopTenListsTen ==
  AnalysisSucceeded =>
    \A i \in 1..Len(output[1].blocks) :
      output[1].blocks[i].lines[1].line = "total unique values (showing top 10):"
        => Cardinality(EntryLines(i)) = DisplayCap

====
